---------------------------- MODULE Spec2Model ----------------------------
(***************************************************************************)
(* Monte Carlo option pricing (utils/path.py, utils/payoff.py,             *)
(* utils/engine.py, utils/enums.py, run.py).                               *)
(*                                                                         *)
(* Numbers.  Every real number of the program is an exact rational         *)
(* <<n, d>> in lowest terms with d > 0.  The model runs the program on     *)
(* parameters for which all of its real arithmetic is exact:               *)
(*   - rates r, div are integers in units of ln 2;                         *)
(*   - the volatility vol is an integer in units of sqrt(2 ln 2), so that  *)
(*     (1/2) * vol**2 is vol * vol in units of ln 2;                       *)
(*   - a Gaussian draw is an integer in units of sqrt(ln 2 / 2), so that   *)
(*     vol * gauss is an integer in units of ln 2;                         *)
(*   - time increments are perfect squares.                                *)
(* math.exp of k units of ln 2 is then exactly 2^k (Exp).  The standard    *)
(* error, a square root, is carried as its square (stderr2).               *)
(***************************************************************************)
EXTENDS Integers, Sequences, FiniteSets, TLC

VARIABLES
    rng,      \* state of the process-wide random source (module random)
    payoff,   \* PricingEngine.payoff : the payoff object
    path,     \* PricingEngine.path   : the PathGenerator object
    ret       \* outcome of the last call: arguments, return value or error

vars == <<rng, payoff, path, ret>>

---------------------------------------------------------------------------
(* Bounds of the model *)

MaxLen == 3        \* longest observation schedule / path handed to a call
MaxTrials == 6     \* largest ntrials handed to price
RngPeriod == 4     \* number of states of the random source

---------------------------------------------------------------------------
(* Exact rational arithmetic: Python's float operators on the parameters   *)
(* above.                                                                  *)

Abs(n) == IF n < 0 THEN -n ELSE n

RECURSIVE GCD(_, _)
GCD(a, b) == IF b = 0 THEN a ELSE GCD(b, a % b)

Rat(n, d) ==
    LET s == IF d < 0 THEN -1 ELSE 1
        g == GCD(Abs(n), Abs(d))
    IN  <<(s * n) \div g, (s * d) \div g>>

Num(n) == <<n, 1>>

LCM(a, b) == (a \div GCD(a, b)) * b

RAdd(a, b) ==
    IF a[2] = 1 /\ b[2] = 1 THEN <<a[1] + b[1], 1>>
    ELSE LET d == LCM(a[2], b[2])
         IN  Rat(a[1] * (d \div a[2]) + b[1] * (d \div b[2]), d)

RNeg(a) == <<-a[1], a[2]>>

RSub(a, b) == RAdd(a, RNeg(b))

RMul(a, b) ==
    IF a[2] = 1 /\ b[2] = 1 THEN <<a[1] * b[1], 1>>
    ELSE LET g1 == GCD(Abs(a[1]), b[2])
             g2 == GCD(Abs(b[1]), a[2])
         IN  <<(a[1] \div g1) * (b[1] \div g2),
               (a[2] \div g2) * (b[2] \div g1)>>

\* a / b, b # 0
RDiv(a, b) == RMul(a, Rat(b[2], b[1]))

RLess(a, b) == a[1] * b[2] < b[1] * a[2]

\* max(a, b) of Python: the first of the largest
RMax(a, b) == IF RLess(a, b) THEN b ELSE a

\* math.exp(k ln 2)
Exp(k) == IF k >= 0 THEN <<2 ^ k, 1>> ELSE <<1, 2 ^ (-k)>>

\* math.sqrt on a perfect square
Sqrt(x) == CHOOSE k \in 0..x : k * k = x

RECURSIVE RSum(_)
RSum(s) == IF s = <<>> THEN Num(0) ELSE RAdd(Head(s), RSum(Tail(s)))

\* the list (a tuple) of the values f[1], ..., f[n]
List(f) == f \o <<>>

\* body(v) for v the value of e: a local variable assigned once
Bind(e, body(_)) == CHOOSE out \in {body(v) : v \in {e}} : TRUE

---------------------------------------------------------------------------
(* Errors.  The class of the exception a call ends with; NoError when it   *)
(* returns.                                                                *)

\* msg is the message, a sequence of strings
NoError == [type |-> "None", msg |-> <<>>]

Raise(type, msg) == [type |-> type, msg |-> msg]

---------------------------------------------------------------------------
(* The random source: random.seed(s) and random.gauss(0, 1).  The source   *)
(* is a deterministic generator: its state fixes the draw returned and the *)
(* state after it.                                                         *)

Seeds == 0..(RngPeriod - 1)

\* the state random.seed(s) leaves
SeedState(s) == s % RngPeriod

\* the value random.gauss(0, 1) returns in state x, in units of sqrt(ln 2 / 2)
Gauss(x) == (x % 3) - 1

\* the state after one random.gauss call
RngNext(x) == (x + 1) % RngPeriod

---------------------------------------------------------------------------
(* utils/path.py : PathGenerator.  An object is [S, r, div, vol].          *)

\* Outcome of a call: the exception it ends with (NoError when it returns),
\* the returned value (<<v>>, or <<>> when nothing is returned), the values
\* random.gauss returned during the call, in order, and the state the
\* random source is left in.
Outcome(err, value, draws, x) ==
    [err |-> err, value |-> value, draws |-> draws, rng |-> x]

net_r(pg) == pg.r - pg.div

\* dts = [T[idx + 1] - T[idx] for idx in range(len(T) - 1)]
Dts(T) == List([idx \in 1..(Len(T) - 1) |-> T[idx + 1] - T[idx]])

\* drift = e^{(r - (1/2) vol^2) dt}
Drift(pg, dt) == Exp((net_r(pg) - pg.vol * pg.vol) * dt)

\* vol_term = e^{vol sqrt(dt) gauss}
VolTerm(pg, dt, gauss) == Exp(pg.vol * Sqrt(dt) * gauss)

\* [0] * len(T)
Zeros(n) == List([i \in 1..n |-> Num(0)])

\* the loop of generate, from step idx (1-based) on
RECURSIVE GenerateLoop(_, _, _, _, _, _)
GenerateLoop(pg, dts, idx, spot_prices, draws, x) ==
    IF idx > Len(dts) THEN Outcome(NoError, <<spot_prices>>, draws, x)
    ELSE LET dt == dts[idx]
             drift == Drift(pg, dt)
             rdm_gauss == Gauss(x)
             vol_term == VolTerm(pg, dt, rdm_gauss)
         IN  Bind(RMul(RMul(spot_prices[idx], drift), vol_term),
                  LAMBDA S_t :
                  GenerateLoop(pg, dts, idx + 1,
                               [spot_prices EXCEPT ![idx + 1] = S_t],
                               Append(draws, rdm_gauss), RngNext(x)))

\* A faulty variant of generate: a draw is taken for the first date too
generateDrawPerDate(pg, T, x) ==
    IF Len(T) = 0
    THEN Outcome(Raise("IndexError", <<"list assignment index out of range">>),
                 <<>>, <<>>, x)
    ELSE GenerateLoop(pg, Dts(T), 1, [Zeros(Len(T)) EXCEPT ![1] = pg.S],
                      <<Gauss(x)>>, RngNext(x))

generate(pg, T, x) ==
    IF Len(T) = 0
    THEN Outcome(Raise("IndexError", <<"list assignment index out of range">>),
                 <<>>, <<>>, x)
    ELSE GenerateLoop(pg, Dts(T), 1, [Zeros(Len(T)) EXCEPT ![1] = pg.S],
                      <<>>, x)

\* A faulty variant of AntitheticGauss: the sign is not flipped
SameGauss(rdm_gauss) == rdm_gauss

\* a_gauss = -rdm_gauss
AntitheticGauss(rdm_gauss) == -rdm_gauss

\* the loop of generate_antithetic, from step idx (1-based) on
RECURSIVE AntitheticLoop(_, _, _, _, _, _, _)
AntitheticLoop(pg, dts, idx, spot_prices, a_spot_prices, draws, x) ==
    IF idx > Len(dts)
    THEN Outcome(NoError, <<<<spot_prices, a_spot_prices>>>>, draws, x)
    ELSE LET dt == dts[idx]
             drift == Drift(pg, dt)
             rdm_gauss == Gauss(x)
             a_gauss == AntitheticGauss(rdm_gauss)
             vol_term == VolTerm(pg, dt, rdm_gauss)
             a_vol_term == VolTerm(pg, dt, a_gauss)
         IN  Bind(<<RMul(RMul(spot_prices[idx], drift), vol_term),
                    RMul(RMul(a_spot_prices[idx], drift), a_vol_term)>>,
                  LAMBDA S_t :
                  AntitheticLoop(pg, dts, idx + 1,
                                 [spot_prices EXCEPT ![idx + 1] = S_t[1]],
                                 [a_spot_prices EXCEPT ![idx + 1] = S_t[2]],
                                 Append(draws, rdm_gauss), RngNext(x)))

\* A faulty variant of generate_antithetic: a draw is taken for the first
\* date too
generateAntitheticDrawPerDate(pg, T, x) ==
    IF Len(T) = 0
    THEN Outcome(Raise("IndexError", <<"list assignment index out of range">>),
                 <<>>, <<>>, x)
    ELSE LET spot_prices == [Zeros(Len(T)) EXCEPT ![1] = pg.S]
         IN  AntitheticLoop(pg, Dts(T), 1, spot_prices, spot_prices,
                            <<Gauss(x)>>, RngNext(x))

generate_antithetic(pg, T, x) ==
    IF Len(T) = 0
    THEN Outcome(Raise("IndexError", <<"list assignment index out of range">>),
                 <<>>, <<>>, x)
    ELSE LET spot_prices == [Zeros(Len(T)) EXCEPT ![1] = pg.S]
             a_spot_prices == spot_prices
         IN  AntitheticLoop(pg, Dts(T), 1, spot_prices, a_spot_prices,
                            <<>>, x)

---------------------------------------------------------------------------
(* utils/enums.py and utils/payoff.py : the payoff classes.                *)

\* x.name for x in the enumeration
Members(enum) ==
    CASE enum = "OptionRight" -> <<"Call", "Put">>
      [] enum = "BarrierUpDown" -> <<"Up", "Down">>
      [] enum = "BarrierInOut" -> <<"In", "Out">>

Range(s) == {s[i] : i \in DOMAIN s}

\* Attributes every enumeration class has besides its members; among them
\* the methods PPEnum defines.
ClassAttributes == {"__repr__", "__str__", "__doc__", "__members__"}

\* hasattr(Enum, val)
HasAttr(enum, val) == val \in Range(Members(enum)) \cup ClassAttributes

\* The three setters option_right, barrier_updown, barrier_inout.  val is
\* [type, v]: a str, or a member of an enumeration; the outcome holds the
\* member stored.
SetLabel(enum, val) ==
    IF val.type = "str"
    THEN IF ~HasAttr(enum, val.v)
         THEN [err |-> Raise("ValueError", <<"Invalid str", val.v, "expected">>
                                           \o Members(enum)),
               value |-> <<>>]
         ELSE IF val.v \in Range(Members(enum))
              THEN [err |-> NoError, value |-> <<val.v>>]
              ELSE [err |-> Raise("KeyError", <<val.v>>), value |-> <<>>]
    ELSE IF val.type = enum
         THEN [err |-> NoError, value |-> <<val.v>>]
         ELSE [err |-> Raise("TypeError", <<"Expected str or", enum,
                                            "instead got type", val.type>>),
               value |-> <<>>]

\* BasePayoff.__init__ : K, then the option_right setter
BasePayoffInit(kind, K, option_right) ==
    LET r == SetLabel("OptionRight", option_right)
    IN  IF r.err # NoError THEN r
        ELSE [err |-> NoError,
              value |-> <<[kind |-> kind, K |-> K,
                           option_right |-> r.value[1]]>>]

\* DiscreteBarrierPayOff.__init__ : BasePayoff.__init__, B, then the
\* barrier_updown and barrier_inout setters, in this order
DiscreteBarrierPayOffInit(K, option_right, B, barrier_updown, barrier_inout) ==
    LET base == BasePayoffInit("DiscreteBarrierPayOff", K, option_right)
        u == SetLabel("BarrierUpDown", barrier_updown)
        i == SetLabel("BarrierInOut", barrier_inout)
    IN  IF base.err # NoError THEN base
        ELSE IF u.err # NoError THEN u
        ELSE IF i.err # NoError THEN i
        ELSE [err |-> NoError,
              value |-> <<[kind |-> "DiscreteBarrierPayOff", K |-> K,
                           option_right |-> base.value[1].option_right,
                           B |-> B,
                           barrier_updown |-> u.value[1],
                           barrier_inout |-> i.value[1]]>>]

\* BasePayoff._calculate_call
calculate_call(po, S) == RMax(RSub(S, po.K), Num(0))

\* BasePayoff._calculate_put
calculate_put(po, S) == RMax(RSub(po.K, S), Num(0))

\* S[-1]
Last(S) == S[Len(S)]

\* min(H) of a non-empty list of integers
Min(H) == CHOOSE h \in Range(H) : \A g \in Range(H) : h <= g

\* A faulty variant of VanillaPayOff.calculate: the first entry settles
VanillaCalculateFirst(po, S) ==
    IF Len(S) = 0
    THEN [err |-> Raise("IndexError", <<"list index out of range">>),
          value |-> <<>>]
    ELSE IF po.option_right = "Call"
         THEN [err |-> NoError, value |-> <<calculate_call(po, S[1])>>]
         ELSE [err |-> NoError, value |-> <<calculate_put(po, S[1])>>]

\* VanillaPayOff.calculate
VanillaCalculate(po, S) ==
    IF Len(S) = 0
    THEN [err |-> Raise("IndexError", <<"list index out of range">>),
          value |-> <<>>]
    ELSE IF po.option_right = "Call"
         THEN [err |-> NoError, value |-> <<calculate_call(po, Last(S))>>]
         ELSE [err |-> NoError, value |-> <<calculate_put(po, Last(S))>>]

\* A faulty variant of AsianArithmeticPayOff.calculate: the initial spot
\* is left out of the mean when the path has later entries
AsianCalculateLaterOnly(po, S) ==
    IF Len(S) = 0
    THEN [err |-> Raise("ZeroDivisionError", <<"division by zero">>),
          value |-> <<>>]
    ELSE LET later == IF Len(S) > 1 THEN Tail(S) ELSE S
             avg_sum == RDiv(RSum(later), Num(Len(later)))
         IN  IF po.option_right = "Call"
             THEN [err |-> NoError, value |-> <<calculate_call(po, avg_sum)>>]
             ELSE [err |-> NoError, value |-> <<calculate_put(po, avg_sum)>>]

\* AsianArithmeticPayOff.calculate
AsianArithmeticCalculate(po, S) ==
    IF Len(S) = 0
    THEN [err |-> Raise("ZeroDivisionError", <<"division by zero">>),
          value |-> <<>>]
    ELSE LET avg_sum == RDiv(RSum(S), Num(Len(S)))
         IN  IF po.option_right = "Call"
             THEN [err |-> NoError, value |-> <<calculate_call(po, avg_sum)>>]
             ELSE [err |-> NoError, value |-> <<calculate_put(po, avg_sum)>>]

\* A faulty variant of Heavyside: a point on the barrier counts as inside
HeavysideInclusive(po, S) ==
    IF po.barrier_updown = "Up"
    THEN List([i \in 1..Len(S) |->
                  IF RLess(RSub(po.B, S[i]), Num(0)) THEN 0 ELSE 1])
    ELSE List([i \in 1..Len(S) |->
                  IF RLess(RSub(S[i], po.B), Num(0)) THEN 0 ELSE 1])

\* the heavyside list H of DiscreteBarrierPayOff.calculate
Heavyside(po, S) ==
    IF po.barrier_updown = "Up"
    THEN List([i \in 1..Len(S) |->
                  IF RLess(Num(0), RSub(po.B, S[i])) THEN 1 ELSE 0])
    ELSE List([i \in 1..Len(S) |->
                  IF RLess(Num(0), RSub(S[i], po.B)) THEN 1 ELSE 0])

\* DiscreteBarrierPayOff.calculate
DiscreteBarrierCalculate(po, S) ==
    LET H == Heavyside(po, S)
    IN  IF Len(H) = 0
        THEN [err |-> Raise("ValueError", <<"min() arg is an empty sequence">>),
              value |-> <<>>]
        ELSE LET activation ==
                     IF po.barrier_inout = "In"
                     THEN (IF Min(H) = 0 THEN 1 ELSE 0)
                     ELSE Min(H)
             IN  IF po.option_right = "Call"
                 THEN [err |-> NoError,
                       value |-> <<RMul(Num(activation),
                                        calculate_call(po, Last(S)))>>]
                 ELSE [err |-> NoError,
                       value |-> <<RMul(Num(activation),
                                        calculate_put(po, Last(S)))>>]

\* payoff.calculate(S), by the class of the payoff object
calculate(po, S) ==
    CASE po.kind = "VanillaPayOff" -> VanillaCalculate(po, S)
      [] po.kind = "AsianArithmeticPayOff" -> AsianArithmeticCalculate(po, S)
      [] po.kind = "DiscreteBarrierPayOff" -> DiscreteBarrierCalculate(po, S)

---------------------------------------------------------------------------
(* utils/engine.py : PricingEngine.price                                   *)

\* statistics.mean of a non-empty list
Mean(data) == RDiv(RSum(data), Num(Len(data)))

\* statistics.stdev(data, xbar) squared, for at least two data points
Variance(data, xbar) ==
    LET dev == List([i \in 1..Len(data) |-> RSub(data[i], xbar)])
        sq == List([i \in 1..Len(data) |-> RMul(dev[i], dev[i])])
    IN  RDiv(RSum(sq), Num(Len(data) - 1))

\* The outcome of one pass of the body of the trial loop: the generator
\* method called (gen), the paths it returned, the paths handed to
\* payoff.calculate, in order (evaluated), and the payoff stored.
TrialOutcome(err, gen, paths, evaluated, po, g) ==
    [err |-> err, gen |-> <<gen>>, paths |-> paths, evaluated |-> evaluated,
     payoff |-> po, draws |-> g.draws, rng |-> g.rng]

\* A faulty variant of Average: the two payoffs added, never halved
SumOfBoth(p, a_po) == RAdd(p, a_po)

\* payoff = (payoff + a_po) / 2
Average(p, a_po) == RDiv(RAdd(p, a_po), Num(2))

\* lines 123-128, on the path(s) generated
TrialPayoff(po, antithetic, gen, paths, g) ==
    LET spot_prices == paths[1]
    IN  Bind(calculate(po, spot_prices), LAMBDA p :
        IF p.err # NoError
        THEN TrialOutcome(p.err, gen, paths, <<spot_prices>>, <<>>, g)
        ELSE IF ~antithetic
        THEN TrialOutcome(NoError, gen, paths, <<spot_prices>>,
                          <<p.value[1]>>, g)
        ELSE LET a_spot_prices == paths[2]
             IN  Bind(calculate(po, a_spot_prices), LAMBDA a_po :
                 IF a_po.err # NoError
                 THEN TrialOutcome(a_po.err, gen, paths,
                                   <<spot_prices, a_spot_prices>>, <<>>, g)
                 ELSE TrialOutcome(NoError, gen, paths,
                                   <<spot_prices, a_spot_prices>>,
                                   <<Average(p.value[1], a_po.value[1])>>,
                                   g)))

\* One pass of the body of the trial loop, lines 116-128
Trial(po, pg, T, antithetic, x) ==
    IF ~antithetic
    THEN Bind(generate(pg, T, x), LAMBDA g :
         IF g.err # NoError
         THEN TrialOutcome(g.err, "generate", <<>>, <<>>, <<>>, g)
         ELSE TrialPayoff(po, antithetic, "generate", <<g.value[1]>>, g))
    ELSE Bind(generate_antithetic(pg, T, x), LAMBDA g :
         IF g.err # NoError
         THEN TrialOutcome(g.err, "generate_antithetic", <<>>, <<>>, <<>>, g)
         ELSE TrialPayoff(po, antithetic, "generate_antithetic",
                          g.value[1], g))

\* The trial loop, from trial idx (1-based) on: the payoffs list, the
\* record of every trial run, the draws taken and the random source.
RECURSIVE TrialLoop(_, _, _, _, _, _, _, _, _, _)
TrialLoop(po, pg, T, ntrials, antithetic, idx, payoffs, trials, draws, x) ==
    IF idx > ntrials
    THEN [err |-> NoError, payoffs |-> payoffs, trials |-> trials,
          draws |-> draws, rng |-> x]
    ELSE Bind(Trial(po, pg, T, antithetic, x), LAMBDA t :
         IF t.err # NoError
         THEN [err |-> t.err, payoffs |-> payoffs,
               trials |-> Append(trials, t),
               draws |-> draws \o t.draws, rng |-> t.rng]
         ELSE TrialLoop(po, pg, T, ntrials, antithetic, idx + 1,
                        [payoffs EXCEPT ![idx] = t.payoff[1]],
                        Append(trials, t), draws \o t.draws, t.rng))

\* Outcome of price: the exception or the MCResult [price, stderr2]
\* (stderr2 is stderr squared), the payoffs list, the discounted payoffs
\* that enter the mean and the standard error, the record of every trial,
\* the draws taken, the random source.
PriceOutcome(err, value, payoffs, dis_payoffs, trials, draws, x) ==
    [err |-> err, value |-> value, payoffs |-> payoffs,
     dis_payoffs |-> dis_payoffs, trials |-> trials, draws |-> draws,
     rng |-> x]

\* A faulty variant of EffectiveTrials: never fewer than two trials
EffectiveTrialsAtLeastTwo(ntrials, T) ==
    IF ntrials \div Len(T) < 2 THEN 2 ELSE ntrials \div Len(T)

\* A faulty variant of EffectiveTrials: every trial asked for is simulated
AllTrials(ntrials, T) == ntrials

\* The effective number of trials, line 113
EffectiveTrials(ntrials, T) == ntrials \div Len(T)

\* The divisor under the square root of the standard error, line 136
StderrDivisor(ntrials) == Num(ntrials)

\* lines 130-138, on the outcome of the trial loop
PriceResult(pg, T, ntrials, loop) ==
    LET df == Exp(-(net_r(pg) * (T[Len(T)] - T[1])))
    IN  Bind(List([i \in 1..ntrials |-> RMul(loop.payoffs[i], df)]),
             LAMBDA dis_payoffs :
        IF Len(dis_payoffs) < 1
        THEN PriceOutcome(Raise("StatisticsError",
                                <<"mean requires at least one data point">>),
                          <<>>, loop.payoffs, dis_payoffs, loop.trials,
                          loop.draws, loop.rng)
        ELSE
        Bind(Mean(dis_payoffs), LAMBDA exp_payoff :
        IF Len(dis_payoffs) < 2
        THEN PriceOutcome(Raise("StatisticsError",
                                <<"stdev requires at least two data points">>),
                          <<>>, loop.payoffs, dis_payoffs, loop.trials,
                          loop.draws, loop.rng)
        ELSE PriceOutcome(NoError,
                          <<[price |-> exp_payoff,
                             stderr2 |-> RDiv(Variance(dis_payoffs,
                                                       exp_payoff),
                                              StderrDivisor(ntrials))]>>,
                          loop.payoffs, dis_payoffs, loop.trials,
                          loop.draws, loop.rng)))

\* A faulty variant of TooFewTrials: off by one, a count one below the
\* number of dates passes
TooFewTrialsOffByOne(n, T) == n < Len(T) - 1

\* the argument check of price, line 108
TooFewTrials(n, T) == n < Len(T)

price(po, pg, T, n, antithetic, x) ==
    IF TooFewTrials(n, T)
    THEN PriceOutcome(Raise("AssertionError",
                            <<"Number of trials cannot be less than the number of setting dates!">>),
                      <<>>, <<>>, <<>>, <<>>, <<>>, x)
    ELSE IF Len(T) = 0
    THEN PriceOutcome(Raise("ZeroDivisionError",
                            <<"integer division or modulo by zero">>),
                      <<>>, <<>>, <<>>, <<>>, <<>>, x)
    ELSE
    LET ntrials == EffectiveTrials(n, T)
    IN  Bind(TrialLoop(po, pg, T, ntrials, antithetic, 1, Zeros(ntrials),
                       <<>>, <<>>, x), LAMBDA loop :
        IF loop.err # NoError
        THEN PriceOutcome(loop.err, <<>>, loop.payoffs, <<>>, loop.trials,
                          loop.draws, loop.rng)
        ELSE PriceResult(pg, T, ntrials, loop))

---------------------------------------------------------------------------
(* The objects and arguments the calls are made with                       *)

\* PathGenerator(S, r, div, vol) objects
PathGenerators ==
    {[S |-> Num(100), r |-> 1, div |-> 0, vol |-> 1],
     [S |-> Num(84), r |-> 3, div |-> 1, vol |-> 1]}

\* strikes K and barriers B
Strikes == {Num(100)}
Barriers == {Num(90)}

PayoffKinds == {"VanillaPayOff", "AsianArithmeticPayOff",
                "DiscreteBarrierPayOff"}

\* Values handed to the setter of an enumeration: strings (a member's
\* name, a name in the wrong case, the name of a class attribute), a member
\* of the enumeration, a member of another enumeration
WrongCase(enum) ==
    CASE enum = "OptionRight" -> "call"
      [] enum = "BarrierUpDown" -> "down"
      [] enum = "BarrierInOut" -> "in"
OtherEnum(enum) ==
    IF enum = "OptionRight" THEN "BarrierUpDown" ELSE "OptionRight"
LabelValues(enum) ==
    [type : {"str"},
     v : Range(Members(enum)) \cup {WrongCase(enum), "__doc__"}]
    \cup {[type |-> enum, v |-> Members(enum)[1]],
          [type |-> OtherEnum(enum), v |-> Members(OtherEnum(enum))[1]]}

\* Members handed to a constructor as enumeration values
MemberValues(enum) == [type : {enum}, v : Range(Members(enum))]

\* Observation schedules: non-decreasing times, increments 0 or 1
Schedules ==
    UNION {{List(T) : T \in {U \in [1..n -> 0..n] :
               /\ n > 0 => U[1] <= 1
               /\ \A i \in 1..(n - 1) : U[i + 1] - U[i] \in {0, 1}}} :
           n \in 0..MaxLen}

\* Price paths handed to calculate directly
PriceLevels == {80, 90, 100, 120}
Paths ==
    UNION {{List([i \in 1..n |-> Num(f[i])]) : f \in [1..n -> PriceLevels]} :
           n \in 0..MaxLen}

---------------------------------------------------------------------------
(* The state machine                                                       *)

\* ret when the caller holds no outcome
NoOutcome == [op |-> "none"]

\* run.py, asian_options: the random source seeded, an engine built
Init ==
    /\ rng = SeedState(1)
    /\ path = [S |-> Num(100), r |-> 1, div |-> 0, vol |-> 1]
    /\ payoff = [kind |-> "AsianArithmeticPayOff", K |-> Num(100),
                 option_right |-> "Call"]
    /\ ret = NoOutcome

\* random.seed(s)
Seed(s) ==
    /\ rng' = SeedState(s)
    /\ UNCHANGED <<payoff, path, ret>>

\* engine.path = PathGenerator(...)
SetPath(pg) ==
    /\ path' = pg
    /\ ret' = [op |-> "PathGenerator", value |-> <<pg>>]
    /\ UNCHANGED <<rng, payoff>>

\* engine.payoff = VanillaPayOff(K, option_right), or AsianArithmeticPayOff
NewPayoff(kind, K, option_right) ==
    \E r \in {BasePayoffInit(kind, K, option_right)} :
        /\ ret' = [op |-> kind, args |-> <<option_right>>,
                   err |-> r.err, value |-> r.value]
        /\ payoff' = IF r.err = NoError THEN r.value[1] ELSE payoff
        /\ UNCHANGED <<rng, path>>

\* engine.payoff = DiscreteBarrierPayOff(K, option_right, B, updown, inout)
NewBarrierPayoff(K, option_right, B, barrier_updown, barrier_inout) ==
    \E r \in {DiscreteBarrierPayOffInit(K, option_right, B, barrier_updown,
                                        barrier_inout)} :
        /\ ret' = [op |-> "DiscreteBarrierPayOff",
                   args |-> <<option_right, barrier_updown, barrier_inout>>,
                   err |-> r.err, value |-> r.value]
        /\ payoff' = IF r.err = NoError THEN r.value[1] ELSE payoff
        /\ UNCHANGED <<rng, path>>

\* engine.path.generate(T)
Generate(T) ==
    \E r \in {generate(path, T, rng)} :
        /\ ret' = [op |-> "generate", T |-> T, rng0 |-> rng, err |-> r.err,
                   value |-> r.value, draws |-> r.draws]
        /\ rng' = r.rng
        /\ UNCHANGED <<payoff, path>>

\* engine.path.generate_antithetic(T)
GenerateAntithetic(T) ==
    \E r \in {generate_antithetic(path, T, rng)} :
        /\ ret' = [op |-> "generate_antithetic", T |-> T, rng0 |-> rng,
                   err |-> r.err, value |-> r.value, draws |-> r.draws]
        /\ rng' = r.rng
        /\ UNCHANGED <<payoff, path>>

\* engine.payoff.calculate(S)
Calculate(S) ==
    \E r \in {calculate(payoff, S)} :
        /\ ret' = [op |-> "calculate", S |-> S, err |-> r.err,
                   value |-> r.value]
        /\ UNCHANGED <<rng, payoff, path>>

\* Whether a call of price repeats the call whose outcome the caller still
\* holds: the same arguments, from the same state of the random source
Again(T, ntrials, antithetic) ==
    /\ ret.op = "price"
    /\ ret.T = T /\ ret.ntrials = ntrials /\ ret.antithetic = antithetic
    /\ ret.rng0 = rng

\* A faulty variant of Price: the generator keeps the last price of the
\* last path it simulated as its spot
PriceKeepsSpot(T, ntrials, antithetic) ==
    \E r \in {price(payoff, path, T, ntrials, antithetic, rng)} :
        /\ ret' = [op |-> "price", T |-> T, ntrials |-> ntrials,
                   antithetic |-> antithetic, rng0 |-> rng, err |-> r.err,
                   value |-> r.value, payoffs |-> r.payoffs,
                   dis_payoffs |-> r.dis_payoffs, trials |-> r.trials,
                   draws |-> r.draws,
                   again |-> Again(T, ntrials, antithetic)]
        /\ rng' = r.rng
        /\ path' = IF r.trials = <<>> \/ Last(r.trials).paths = <<>>
                   THEN path
                   ELSE [path EXCEPT !.S = Last(Last(r.trials).paths[1])]
        /\ UNCHANGED payoff

\* A faulty variant of Price: the payoff of the last trial is stored over
\* the strike of the engine's payoff
PriceOverwritesStrike(T, ntrials, antithetic) ==
    \E r \in {price(payoff, path, T, ntrials, antithetic, rng)} :
        /\ ret' = [op |-> "price", T |-> T, ntrials |-> ntrials,
                   antithetic |-> antithetic, rng0 |-> rng, err |-> r.err,
                   value |-> r.value, payoffs |-> r.payoffs,
                   dis_payoffs |-> r.dis_payoffs, trials |-> r.trials,
                   draws |-> r.draws,
                   again |-> Again(T, ntrials, antithetic)]
        /\ rng' = r.rng
        /\ payoff' = IF r.payoffs = <<>> THEN payoff
                     ELSE [payoff EXCEPT !.K = Last(r.payoffs)]
        /\ UNCHANGED path

\* engine.price(T, ntrials, antithetic)
Price(T, ntrials, antithetic) ==
    \E r \in {price(payoff, path, T, ntrials, antithetic, rng)} :
        /\ ret' = [op |-> "price", T |-> T, ntrials |-> ntrials,
                   antithetic |-> antithetic, rng0 |-> rng, err |-> r.err,
                   value |-> r.value, payoffs |-> r.payoffs,
                   dis_payoffs |-> r.dis_payoffs, trials |-> r.trials,
                   draws |-> r.draws,
                   again |-> Again(T, ntrials, antithetic)]
        /\ rng' = r.rng
        /\ UNCHANGED <<payoff, path>>

\* The caller is done with the outcome of its last call (run.py prints the
\* result, or the error ends the scenario)
Consume ==
    /\ ret # NoOutcome
    /\ ret' = NoOutcome
    /\ UNCHANGED <<rng, payoff, path>>

\* The caller is sequential: it makes its next call once it is done with
\* the outcome of the last one
Ready == ret = NoOutcome

\* The pricing engine at work: seeding, a new market scenario, a new
\* payoff, pricing
Next ==
    \/ \E s \in Seeds : Ready /\ Seed(s)
    \/ \E pg \in PathGenerators : Ready /\ SetPath(pg)
    \/ \E kind \in PayoffKinds \ {"DiscreteBarrierPayOff"}, K \in Strikes,
          o \in MemberValues("OptionRight") : Ready /\ NewPayoff(kind, K, o)
    \/ \E K \in Strikes, o \in MemberValues("OptionRight"), B \in Barriers,
          u \in MemberValues("BarrierUpDown"),
          i \in MemberValues("BarrierInOut") :
          Ready /\ NewBarrierPayoff(K, o, B, u, i)
    \/ \E T \in Schedules, ntrials \in 0..MaxTrials, antithetic \in BOOLEAN :
          Ready /\ Price(T, ntrials, antithetic)
    \/ Consume

Spec == Init /\ [][Next]_vars

\* The path generator called directly
NextPath ==
    \/ \E s \in Seeds : Ready /\ Seed(s)
    \/ \E pg \in PathGenerators : Ready /\ SetPath(pg)
    \/ \E T \in Schedules : Ready /\ Generate(T)
    \/ \E T \in Schedules : Ready /\ GenerateAntithetic(T)
    \/ Consume

SpecPath == Init /\ [][NextPath]_vars

\* The payoff classes called directly: construction from any value, and
\* evaluation of any path
NextPayoff ==
    \/ \E kind \in PayoffKinds \ {"DiscreteBarrierPayOff"}, K \in Strikes,
          o \in LabelValues("OptionRight") : Ready /\ NewPayoff(kind, K, o)
    \/ \E K \in Strikes, o \in LabelValues("OptionRight"), B \in Barriers,
          u \in LabelValues("BarrierUpDown"),
          i \in LabelValues("BarrierInOut") :
          Ready /\ NewBarrierPayoff(K, o, B, u, i)
    \/ \E S \in Paths : Ready /\ Calculate(S)
    \/ Consume

SpecPayoff == Init /\ [][NextPayoff]_vars

\* A caller that checks reproducibility: it keeps the outcome of a price
\* call while it seeds the random source again and calls price again, with
\* all the trials on the schedules one date short of the longest
NextRepro ==
    \/ \E s \in Seeds : Seed(s)
    \/ \E pg \in PathGenerators : Ready /\ SetPath(pg)
    \/ \E kind \in PayoffKinds \ {"DiscreteBarrierPayOff"}, K \in Strikes,
          o \in MemberValues("OptionRight") : Ready /\ NewPayoff(kind, K, o)
    \/ \E K \in Strikes, o \in MemberValues("OptionRight"), B \in Barriers,
          u \in MemberValues("BarrierUpDown"),
          i \in MemberValues("BarrierInOut") :
          Ready /\ NewBarrierPayoff(K, o, B, u, i)
    \/ \E T \in {U \in Schedules : Len(U) = MaxLen - 1},
          antithetic \in BOOLEAN :
          (Ready \/ ret.op = "price") /\ Price(T, MaxTrials, antithetic)
    \/ Consume

SpecRepro == Init /\ [][NextRepro]_vars

---------------------------------------------------------------------------
(* Properties of PricingEngine.price, checked under Spec                   *)

\* C1: whenever price is called with fewer trials than the schedule has
\* dates, the call fails with the error of the engine's argument check
\* (raised for the invalid trial count), for either value of the
\* antithetic flag and every payoff; no MCResult is returned.
C1_FewerTrialsThanDates ==
    (ret.op = "price" /\ ret.ntrials < Len(ret.T)) =>
        /\ ret.err.type = "AssertionError"
        /\ ret.value = <<>>

\* a barrier option priced with antithetic paths on two trials over three
\* dates
C1_Witness ==
    /\ ret.op = "price"
    /\ Len(ret.T) = 3 /\ ret.ntrials = 2 /\ ret.antithetic
    /\ payoff.kind = "DiscreteBarrierPayOff"
    /\ ret.err.type = "AssertionError"

TrialStart(i) == IF i = 1 THEN ret.rng0 ELSE ret.trials[i - 1].rng

\* C3: every trial of price with antithetic enabled makes one call of
\* generate_antithetic, evaluates the payoff once on the primary and once
\* on the antithetic path, and contributes the single sample
\* (payoff(primary) + payoff(antithetic)) / 2; with antithetic disabled the
\* trial contributes payoff(generate(T)).
C3_TrialSample ==
    ret.op = "price" =>
        \A i \in 1..Len(ret.trials) :
            LET t == ret.trials[i]
            IN  IF ret.antithetic
                THEN /\ t.gen = <<"generate_antithetic">>
                     /\ t.paths = generate_antithetic(path, ret.T,
                                                      TrialStart(i)).value[1]
                     /\ t.evaluated = <<t.paths[1], t.paths[2]>>
                     /\ t.payoff # <<>>
                     /\ ret.payoffs[i] = t.payoff[1]
                     /\ RMul(Num(2), t.payoff[1])
                            = RAdd(calculate(payoff, t.paths[1]).value[1],
                                   calculate(payoff, t.paths[2]).value[1])
                ELSE /\ t.gen = <<"generate">>
                     /\ t.paths = generate(path, ret.T, TrialStart(i)).value
                     /\ t.evaluated = t.paths
                     /\ t.payoff = calculate(payoff, t.paths[1]).value
                     /\ ret.payoffs[i] = t.payoff[1]

\* an antithetic trial whose two paths pay differently, both something
C3_Witness ==
    /\ ret.op = "price" /\ ret.antithetic
    /\ \E i \in 1..Len(ret.trials) :
           LET t == ret.trials[i]
               p == calculate(payoff, t.paths[1]).value[1]
               a_po == calculate(payoff, t.paths[2]).value[1]
           IN  /\ p # a_po /\ p # Num(0) /\ a_po # Num(0)
               /\ ret.payoffs[i] = RDiv(RAdd(p, a_po), Num(2))

---------------------------------------------------------------------------
(* Reproducibility of PricingEngine.price, checked under SpecRepro         *)

---------------------------------------------------------------------------
(* Properties of PathGenerator, checked under SpecPath                     *)

\* The state of the random source after k calls of random.gauss from x
RECURSIVE Advance(_, _)
Advance(x, k) == IF k = 0 THEN x ELSE Advance(RngNext(x), k - 1)

\* C5: for a schedule of len(T) >= 1 dates generate returns len(T) prices,
\* the first of them the spot S, and takes exactly len(T) - 1 draws from the
\* random source; for one date it returns [S] and leaves the source alone.
C5_GenerateLength ==
    (ret.op = "generate" /\ Len(ret.T) >= 1) =>
        /\ ret.err = NoError
        /\ Len(ret.value) = 1
        /\ Len(ret.value[1]) = Len(ret.T)
        /\ ret.value[1][1] = path.S
        /\ Len(ret.draws) = Len(ret.T) - 1
        /\ rng = Advance(ret.rng0, Len(ret.T) - 1)
        /\ Len(ret.T) = 1 =>
               (ret.value[1] = <<path.S>> /\ ret.draws = <<>>
                /\ rng = ret.rng0)

\* a path over three dates that moved away from the spot on two draws
C5_Witness ==
    /\ ret.op = "generate" /\ Len(ret.T) = 3
    /\ Len(ret.draws) = 2 /\ rng # ret.rng0
    /\ ret.value[1][3] # ret.value[1][1]

\* C6: for a schedule of len(T) >= 1 dates generate_antithetic takes one
\* draw z per step, the next output of the random source, and uses it for
\* both paths: step i multiplies the primary path by drift * f(+z) and the
\* antithetic path by the same drift * f(-z); both paths start at S and
\* have len(T) prices, and the source advances by len(T) - 1 draws only.
C6_AntitheticSharedDraw ==
    (ret.op = "generate_antithetic" /\ Len(ret.T) >= 1) =>
        /\ ret.err = NoError
        /\ Len(ret.value) = 1
        /\ LET n == Len(ret.T)
               spot_prices == ret.value[1][1]
               a_spot_prices == ret.value[1][2]
           IN  /\ Len(spot_prices) = n /\ Len(a_spot_prices) = n
               /\ spot_prices[1] = path.S /\ a_spot_prices[1] = path.S
               /\ Len(ret.draws) = n - 1
               /\ rng = Advance(ret.rng0, n - 1)
               /\ \A i \in 1..(n - 1) :
                      LET dt == ret.T[i + 1] - ret.T[i]
                          z == ret.draws[i]
                      IN  /\ z = Gauss(Advance(ret.rng0, i - 1))
                          /\ spot_prices[i + 1]
                                 = RMul(spot_prices[i],
                                        RMul(Drift(path, dt),
                                             VolTerm(path, dt, z)))
                          /\ a_spot_prices[i + 1]
                                 = RMul(a_spot_prices[i],
                                        RMul(Drift(path, dt),
                                             VolTerm(path, dt, -z)))

\* a pair of paths over three dates one time unit apart, under a drift
\* that is not 1, that end at different prices
C6_Witness ==
    /\ ret.op = "generate_antithetic" /\ ret.T = <<0, 1, 2>>
    /\ Drift(path, 1) # Num(1)
    /\ ret.draws[1] # 0
    /\ ret.value[1][1][3] # ret.value[1][2][3]

---------------------------------------------------------------------------
(* Properties of the payoff classes, checked under SpecPayoff              *)

\* max(x - K, 0) for a Call, max(K - x, 0) for a Put
Floored(po, x) ==
    IF po.option_right = "Call"
    THEN (IF RLess(po.K, x) THEN RSub(x, po.K) ELSE Num(0))
    ELSE (IF RLess(x, po.K) THEN RSub(po.K, x) ELSE Num(0))

\* a string handed to a constructor
Str(v) == [type |-> "str", v |-> v]

\* C7: on a non-empty path DiscreteBarrierPayOff.calculate returns
\* activation * floored call/put payoff on the last price, where a point x
\* is inside iff x < B (Up) or x > B (Down), so that a point equal to B is
\* crossed; Out is active iff every point of the path is inside, In iff
\* some point is not.  The Down-and-Out call with K = 100, B = 90 pays 20
\* on [100, 110, 120] and 0 on [100, 110, 120, 80, 110].
C7_BarrierPayoff ==
    /\ (ret.op = "calculate" /\ payoff.kind = "DiscreteBarrierPayOff"
        /\ Len(ret.S) >= 1) =>
           LET S == ret.S
               all_inside ==
                   \A i \in 1..Len(S) :
                       IF payoff.barrier_updown = "Up"
                       THEN RLess(S[i], payoff.B)
                       ELSE RLess(payoff.B, S[i])
               active == IF payoff.barrier_inout = "Out"
                         THEN all_inside ELSE ~all_inside
           IN  /\ ret.err = NoError
               /\ ret.value = <<IF active THEN Floored(payoff, Last(S))
                                ELSE Num(0)>>
    /\ LET po == DiscreteBarrierPayOffInit(Num(100), Str("Call"), Num(90),
                                           Str("Down"), Str("Out")).value[1]
       IN  /\ calculate(po, <<Num(100), Num(110), Num(120)>>).value
                  = <<Num(20)>>
           /\ calculate(po, <<Num(100), Num(110), Num(120), Num(80),
                              Num(110)>>).value = <<Num(0)>>

\* a Down-and-Out call in the money at the end, knocked out by the one
\* point of the path that sits on the barrier
C7_Witness ==
    /\ ret.op = "calculate" /\ payoff.kind = "DiscreteBarrierPayOff"
    /\ payoff.barrier_updown = "Down" /\ payoff.barrier_inout = "Out"
    /\ payoff.option_right = "Call"
    /\ Len(ret.S) = 3
    /\ ret.S[2] = payoff.B
    /\ \A i \in {1, 3} : RLess(payoff.B, ret.S[i])
    /\ RLess(payoff.K, Last(ret.S))
    /\ ret.value = <<Num(0)>>

\* C8: on a non-empty path VanillaPayOff.calculate returns
\* max(path[-1] - K, 0) for a Call and max(K - path[-1], 0) for a Put; every
\* path with the same last price gives the same payoff.  With K = 150 the
\* call pays 10 on [160] and 0 on [140].
C8_VanillaPayoff ==
    /\ (ret.op = "calculate" /\ payoff.kind = "VanillaPayOff"
        /\ Len(ret.S) >= 1) =>
           /\ ret.err = NoError
           /\ ret.value = <<Floored(payoff, Last(ret.S))>>
           /\ \A S \in Paths :
                  (Len(S) >= 1 /\ Last(S) = Last(ret.S)) =>
                      calculate(payoff, S).value = ret.value
    /\ LET po == BasePayoffInit("VanillaPayOff", Num(150),
                                Str("Call")).value[1]
       IN  /\ calculate(po, <<Num(160)>>).value = <<Num(10)>>
           /\ calculate(po, <<Num(140)>>).value = <<Num(0)>>

\* a put in the money at the end of a path that started out of the money
C8_Witness ==
    /\ ret.op = "calculate" /\ payoff.kind = "VanillaPayOff"
    /\ payoff.option_right = "Put"
    /\ Len(ret.S) = 3
    /\ RLess(payoff.K, ret.S[1]) /\ RLess(Last(ret.S), payoff.K)
    /\ ret.value = <<RSub(payoff.K, Last(ret.S))>>

\* C9: on a non-empty path AsianArithmeticPayOff.calculate returns the
\* floored call/put payoff on the arithmetic mean of all the prices of the
\* path, the first one included.  With K = 150 the call pays 10 on
\* [140, 150, 160, 170, 180].
C9_AsianPayoff ==
    /\ (ret.op = "calculate" /\ payoff.kind = "AsianArithmeticPayOff"
        /\ Len(ret.S) >= 1) =>
           /\ ret.err = NoError
           /\ ret.value = <<Floored(payoff, RDiv(RSum(ret.S),
                                                 Num(Len(ret.S))))>>
    /\ LET po == BasePayoffInit("AsianArithmeticPayOff", Num(150),
                                Str("Call")).value[1]
       IN  calculate(po, <<Num(140), Num(150), Num(160), Num(170),
                           Num(180)>>).value = <<Num(10)>>

\* a call in the money on the mean of three prices, which the mean of the
\* last two would pay less
C9_Witness ==
    /\ ret.op = "calculate" /\ payoff.kind = "AsianArithmeticPayOff"
    /\ payoff.option_right = "Call"
    /\ ret.S = <<Num(120), Num(120), Num(90)>>
    /\ payoff.K = Num(100)
    /\ ret.value = <<Num(10)>>

\* C10: the construction of a payoff whose first unacceptable label is a
\* string that is not a member's name of its enumeration fails with a
\* ValueError that names the allowed labels, and no payoff object results.
C10_BadLabelRejected ==
    ret.op \in PayoffKinds =>
        LET enums == <<"OptionRight", "BarrierUpDown", "BarrierInOut">>
            Bad(k) == /\ ret.args[k].type = "str"
                      /\ ret.args[k].v \notin Range(Members(enums[k]))
            Accepted(k) == /\ ~Bad(k)
                           /\ ret.args[k].type \in {"str", enums[k]}
        IN  \A k \in 1..Len(ret.args) :
                (Bad(k) /\ \A j \in 1..(k - 1) : Accepted(j)) =>
                    /\ ret.err.type = "ValueError"
                    /\ Range(Members(enums[k])) \subseteq Range(ret.err.msg)
                    /\ ret.value = <<>>

---------------------------------------------------------------------------
(* Errors, frame and draws of PricingEngine.price and of calculate         *)

\* The exceptions that report an invalid argument: ValueError and its
\* subclass statistics.StatisticsError, and the AssertionError of the
\* engine's own argument check
InvalidArgument(err) ==
    err.type \in {"ValueError", "StatisticsError", "AssertionError"}

\* C11: a call of price with len(T) <= n_trials < 2 * len(T), which leaves
\* fewer than two effective trials, fails with the invalid-argument error
\* of the standard deviation (StatisticsError, a ValueError) and returns no
\* MCResult.
C11_FewerThanTwoSamples ==
    (/\ ret.op = "price"
     /\ Len(ret.T) <= ret.ntrials /\ ret.ntrials < 2 * Len(ret.T)) =>
        /\ ret.err.type = "StatisticsError"
        /\ InvalidArgument(ret.err)
        /\ ret.value = <<>>

\* one effective trial over three dates: simulated, then refused by the
\* standard deviation
C11_Witness ==
    /\ ret.op = "price"
    /\ Len(ret.T) = 3 /\ ret.ntrials = 5
    /\ Len(ret.dis_payoffs) = 1
    /\ ret.err = Raise("StatisticsError",
                       <<"stdev requires at least two data points">>)

\* C12: calculate on the empty path fails with an invalid-argument error
\* and returns no payoff, for each of the three payoff classes.
C12_EmptyPathRejected ==
    (ret.op = "calculate" /\ ret.S = <<>>) =>
        /\ InvalidArgument(ret.err)
        /\ ret.value = <<>>

\* C13: price called with the empty schedule fails with an invalid-argument
\* error, whatever the trial count and the antithetic flag.
C13_EmptyScheduleRejected ==
    (ret.op = "price" /\ ret.T = <<>>) =>
        /\ InvalidArgument(ret.err)
        /\ ret.value = <<>>

C15_DrawsConsumed ==
    ret.op = "price" =>
        /\ ret.ntrials < Len(ret.T) =>
               (ret.draws = <<>> /\ rng = ret.rng0)
        /\ (ret.ntrials >= Len(ret.T) /\ Len(ret.T) >= 1) =>
               LET m == ret.ntrials \div Len(ret.T)
                   steps == Len(ret.T) - 1
               IN  /\ Len(ret.draws) = m * steps
                   /\ rng = Advance(ret.rng0, m * steps)
                   /\ \A k \in 1..Len(ret.draws) :
                          ret.draws[k] = Gauss(Advance(ret.rng0, k - 1))
                   /\ Len(ret.trials) = m
                   /\ \A i \in 1..Len(ret.trials) :
                          /\ Len(ret.trials[i].draws) = steps
                          /\ ret.trials[i].rng
                                 = Advance(TrialStart(i), steps)

\* two antithetic trials over three dates: four draws, and a result
C15_Witness ==
    /\ ret.op = "price" /\ ret.antithetic
    /\ Len(ret.T) = 3 /\ ret.ntrials = 6
    /\ Len(ret.draws) = 4
    /\ ret.err = NoError

===========================================================================
